---------------------------- MODULE Spec2Model ----------------------------
(***************************************************************************)
(* A model of healthTracker.py: the CSV record store (ensure_csv_schema,   *)
(* read_rows, the append of save_entry), the date normalizer               *)
(* (parse_date_str, sort_rows_by_date) and the series builder of           *)
(* plot_selected.                                                          *)
(*                                                                         *)
(* Text is a sequence of one-character strings, so that trimming, date     *)
(* parsing and number parsing are computed character by character.         *)
(* The backing file is held as the sequence of records csv.reader yields   *)
(* for it (a record is a sequence of cells, the empty record is an empty   *)
(* line); quoting and line terminators are below this level.  Every row    *)
(* the program writes is newline-terminated (csv.DictWriter), and so is    *)
(* every row of the files considered here.                                 *)
(***************************************************************************)
EXTENDS Integers, Sequences, FiniteSets, TLC

VARIABLES file, started, last, saved, input

vars == <<file, started, last, saved, input>>

-----------------------------------------------------------------------------
(* Bounds of the model *)

MaxRows == 2

MaxSaves == 2

MaxSortRows == 3

MaxPlotRows == 3

-----------------------------------------------------------------------------
(* Text helpers *)

Range(s) == {s[i] : i \in 1..Len(s)}

SetMax(S) == CHOOSE x \in S : \A y \in S : y <= x

SetMin(S) == CHOOSE x \in S : \A y \in S : x <= y

\* the element of a one-element set.  Only({e(x) : x \in {v}}) is e(v) with v
\* evaluated once, however often e uses it.
Only(S) == CHOOSE x \in S : TRUE

DigitSeq == <<"0", "1", "2", "3", "4", "5", "6", "7", "8", "9">>

D09 == Range(DigitSeq)

D19 == D09 \ {"0"}

D01 == {"0", "1"}

D02 == {"0", "1", "2"}

D03 == {"0", "1", "2", "3"}

D05 == {"0", "1", "2", "3", "4", "5"}

D12 == {"1", "2"}

DigitVal(c) == CHOOSE n \in 0..9 : DigitSeq[n + 1] = c

\* str.strip() and the regular expression class \s
WS == {" ", "\t"}

RECURSIVE LStrip(_)
LStrip(s) == IF s # <<>> /\ Head(s) \in WS THEN LStrip(Tail(s)) ELSE s

RECURSIVE RStrip(_)
RStrip(s) ==
    IF s # <<>> /\ s[Len(s)] \in WS THEN RStrip(SubSeq(s, 1, Len(s) - 1)) ELSE s

Strip(s) == RStrip(LStrip(s))

\* the decimal value of the digits among s[p .. p+n-1] (a blank counts for nothing)
RECURSIVE NumAt(_, _, _)
NumAt(s, p, n) ==
    IF n = 0 THEN 0
    ELSE LET c == s[p + n - 1]
             rest == NumAt(s, p, n - 1)
         IN IF c \in D09 THEN 10 * rest + DigitVal(c) ELSE rest

\* s[p ..] starts with one character of each class of alt, in order
ClassesAt(alt, s, p) ==
    /\ p + Len(alt) - 1 <= Len(s)
    /\ \A j \in 1..Len(alt) : s[p + j - 1] \in alt[j]

-----------------------------------------------------------------------------
(* datetime: the calendar *)

IsLeap(y) == (y % 4 = 0) /\ ((y % 100 # 0) \/ (y % 400 = 0))

DaysInMonth(y, m) ==
    IF m = 2 THEN (IF IsLeap(y) THEN 29 ELSE 28)
    ELSE IF m \in {4, 6, 9, 11} THEN 30 ELSE 31

RECURSIVE DaysBeforeMonth(_, _)
DaysBeforeMonth(y, m) ==
    IF m = 1 THEN 0 ELSE DaysBeforeMonth(y, m - 1) + DaysInMonth(y, m - 1)

\* date.toordinal(): 1 for 0001-01-01
Ordinal(y, m, d) ==
    LET p == y - 1
    IN p * 365 + (p \div 4) - (p \div 100) + (p \div 400) + DaysBeforeMonth(y, m) + d

\* the datetime constructor's range checks
ValidDateTime(y, m, d, H, M, S) ==
    /\ y \in 1..9999
    /\ m \in 1..12
    /\ d \in 1..DaysInMonth(y, m)
    /\ H \in 0..23
    /\ M \in 0..59
    /\ S \in 0..59

NoDate == [ok |-> FALSE]

\* a naive datetime (tz = "naive") or an aware one (tz = "aware", off in minutes)
DateTime(y, m, d, H, M, S, tz, off) ==
    [ok |-> TRUE, y |-> y, m |-> m, d |-> d, H |-> H, M |-> M, S |-> S,
     tz |-> tz, off |-> off]

-----------------------------------------------------------------------------
(* datetime.strptime: the format is compiled to a regular expression whose  *)
(* directives are ordered alternations, matched from the start of the text  *)
(* with backtracking; text left over after the match is an error.           *)

Directives == {"Y", "m", "d", "H", "M", "S"}

\* _strptime.TimeRE: the alternatives of each directive, in the order tried
Alts(tok) ==
    CASE tok = "Y" -> << <<D09, D09, D09, D09>> >>
      [] tok = "m" -> << <<{"1"}, D02>>, <<{"0"}, D19>>, <<D19>> >>
      [] tok = "d" -> << <<{"3"}, D01>>, <<D12, D09>>, <<{"0"}, D19>>, <<D19>>,
                         <<{" "}, D19>> >>
      [] tok = "H" -> << <<{"2"}, D03>>, <<D01, D09>>, <<D09>> >>
      [] tok = "M" -> << <<D05, D09>>, <<D09>> >>
      [] tok = "S" -> << <<{"6"}, D01>>, <<D05, D09>>, <<D09>> >>
      [] OTHER -> << <<{tok}>> >>

RECURSIVE SkipWS(_, _)
SkipWS(s, p) == IF p <= Len(s) /\ s[p] \in WS THEN SkipWS(s, p + 1) ELSE p

NoMatch == [ok |-> FALSE]

RECURSIVE MatchFmt(_, _, _, _)
RECURSIVE TryAlts(_, _, _, _, _)
\* match fmt[i ..] at s[p ..]: the first match in the regular expression's order
MatchFmt(fmt, i, s, p) ==
    IF i > Len(fmt) THEN [ok |-> TRUE, end |-> p, vals |-> <<>>]
    ELSE IF fmt[i] = " "
         THEN LET q == SkipWS(s, p)
              IN IF q = p THEN NoMatch ELSE MatchFmt(fmt, i + 1, s, q)
         ELSE TryAlts(fmt, i, s, p, 1)

TryAlts(fmt, i, s, p, a) ==
    LET alts == Alts(fmt[i])
    IN IF a > Len(alts) THEN NoMatch
       ELSE IF ClassesAt(alts[a], s, p)
            THEN Only({IF r.ok
                       THEN [ok |-> TRUE, end |-> r.end,
                             vals |-> IF fmt[i] \in Directives
                                      THEN (fmt[i] :> NumAt(s, p, Len(alts[a]))) @@ r.vals
                                      ELSE r.vals]
                       ELSE TryAlts(fmt, i, s, p, a + 1) :
                       r \in {MatchFmt(fmt, i + 1, s, p + Len(alts[a]))}})
            ELSE TryAlts(fmt, i, s, p, a + 1)

FieldOr(vals, k, dflt) == IF k \in DOMAIN vals THEN vals[k] ELSE dflt

\* the datetime of the fields matched, ValueError when they are out of range
DateTimeOfFields(vals) ==
    Only({IF ValidDateTime(v[1], v[2], v[3], v[4], v[5], v[6])
          THEN DateTime(v[1], v[2], v[3], v[4], v[5], v[6], "naive", 0)
          ELSE NoDate :
          v \in {<<FieldOr(vals, "Y", 1900), FieldOr(vals, "m", 1),
                   FieldOr(vals, "d", 1), FieldOr(vals, "H", 0),
                   FieldOr(vals, "M", 0), FieldOr(vals, "S", 0)>>}})

Strptime(s, fmt) ==
    Only({IF ~r.ok \/ r.end # Len(s) + 1 THEN NoDate ELSE DateTimeOfFields(r.vals) :
          r \in {MatchFmt(fmt, 1, s, 1)}})

-----------------------------------------------------------------------------
(* datetime.fromisoformat, for the forms                                    *)
(*   YYYY-MM-DD | YYYYMMDD, then optionally one separator character and     *)
(*   HH[:MM[:SS]], then optionally Z or +HH:MM or -HH:MM.                   *)
(* Other ISO-8601 forms (week dates, fractions of a second) are outside the *)
(* texts considered here.                                                   *)

TwoDigits(s, p) == p + 1 <= Len(s) /\ s[p] \in D09 /\ s[p + 1] \in D09

IsoDateLen(s) ==
    IF /\ Len(s) >= 10
       /\ ClassesAt(<<D09, D09, D09, D09, {"-"}, D09, D09, {"-"}, D09, D09>>, s, 1)
    THEN 10
    ELSE IF /\ Len(s) >= 8
            /\ ClassesAt(<<D09, D09, D09, D09, D09, D09, D09, D09>>, s, 1)
         THEN 8
         ELSE 0

\* the time-zone suffix at s[p ..]: [ok, tz, off]
IsoZone(s, p) ==
    IF p > Len(s) THEN [ok |-> TRUE, tz |-> "naive", off |-> 0]
    ELSE IF p = Len(s) /\ s[p] = "Z" THEN [ok |-> TRUE, tz |-> "aware", off |-> 0]
    ELSE IF /\ p + 5 = Len(s)
            /\ s[p] \in {"+", "-"}
            /\ TwoDigits(s, p + 1)
            /\ s[p + 3] = ":"
            /\ TwoDigits(s, p + 4)
            /\ 60 * NumAt(s, p + 1, 2) + NumAt(s, p + 4, 2) < 1440
         THEN [ok |-> TRUE, tz |-> "aware",
               off |-> (IF s[p] = "-" THEN -1 ELSE 1)
                         * (60 * NumAt(s, p + 1, 2) + NumAt(s, p + 4, 2))]
         ELSE [ok |-> FALSE]

\* the time at s[p ..]: [ok, H, M, S, end]
IsoTime(s, p) ==
    IF ~TwoDigits(s, p) THEN [ok |-> FALSE]
    ELSE IF p + 2 <= Len(s) /\ s[p + 2] = ":"
         THEN IF ~TwoDigits(s, p + 3) THEN [ok |-> FALSE]
              ELSE IF p + 5 <= Len(s) /\ s[p + 5] = ":"
                   THEN IF ~TwoDigits(s, p + 6) THEN [ok |-> FALSE]
                        ELSE [ok |-> TRUE, H |-> NumAt(s, p, 2),
                              M |-> NumAt(s, p + 3, 2), S |-> NumAt(s, p + 6, 2),
                              end |-> p + 8]
                   ELSE [ok |-> TRUE, H |-> NumAt(s, p, 2),
                         M |-> NumAt(s, p + 3, 2), S |-> 0, end |-> p + 5]
         ELSE [ok |-> TRUE, H |-> NumAt(s, p, 2), M |-> 0, S |-> 0, end |-> p + 2]

\* the date of n characters at the start of s, with the time t and the zone z
IsoDateTime(s, n, t, z) ==
    Only({IF t.ok /\ z.ok /\ ValidDateTime(v[1], v[2], v[3], t.H, t.M, t.S)
          THEN DateTime(v[1], v[2], v[3], t.H, t.M, t.S, z.tz, z.off)
          ELSE NoDate :
          v \in {<<NumAt(s, 1, 4),
                   IF n = 10 THEN NumAt(s, 6, 2) ELSE NumAt(s, 5, 2),
                   IF n = 10 THEN NumAt(s, 9, 2) ELSE NumAt(s, 7, 2)>>}})

Midnight == [ok |-> TRUE, H |-> 0, M |-> 0, S |-> 0, end |-> 0]

NoZone == [ok |-> TRUE, tz |-> "naive", off |-> 0]

FromIsoFormat(s) ==
    Only({IF n = 0 THEN NoDate
          ELSE IF Len(s) = n THEN IsoDateTime(s, n, Midnight, NoZone)
          ELSE Only({IF ~t.ok THEN NoDate
                     ELSE Only({IsoDateTime(s, n, t, z) : z \in {IsoZone(s, t.end)}}) :
                     t \in {IsoTime(s, n + 2)}}) :
          n \in {IsoDateLen(s)}})

-----------------------------------------------------------------------------
(* parse_date_str *)

FmtYmdDash == <<"Y", "-", "m", "-", "d">>

FmtYmdSlash == <<"Y", "/", "m", "/", "d">>

FmtDmySlash == <<"d", "/", "m", "/", "Y">>

FmtDmyDash == <<"d", "-", "m", "-", "Y">>

FmtYmdHMS == <<"Y", "-", "m", "-", "d", " ", "H", ":", "M", ":", "S">>

FmtMdySlash == <<"m", "/", "d", "/", "Y">>

FmtMdyDash == <<"m", "-", "d", "-", "Y">>

\* the year-last formats read month first
FmtsMonthFirst == <<FmtYmdDash, FmtYmdSlash, FmtMdySlash, FmtMdyDash, FmtYmdHMS>>

\* fmts of parse_date_str
Fmts == <<FmtYmdDash, FmtYmdSlash, FmtDmySlash, FmtDmyDash, FmtYmdHMS>>

RECURSIVE FirstFormat(_, _, _)
\* the loop over fmts: the first format strptime accepts
FirstFormat(s, fmts, i) ==
    IF i > Len(fmts) THEN NoDate
    ELSE Only({IF r.ok THEN r ELSE FirstFormat(s, fmts, i + 1) :
               r \in {Strptime(s, fmts[i])}})

\* the formats, then fromisoformat, on the trimmed text s
ParseTrimmed(s) ==
    Only({IF r.ok THEN [ok |-> TRUE, dt |-> r]
          ELSE Only({IF iso.ok THEN [ok |-> TRUE, dt |-> iso]
                     ELSE [ok |-> FALSE, text |-> s] :
                     iso \in {FromIsoFormat(s)}}) :
          r \in {FirstFormat(s, Fmts, 1)}})

\* [ok |-> TRUE, dt] or the ValueError carrying the trimmed text; (s or "")
\* makes None the empty text
ParseDateStr(text) ==
    Only({ParseTrimmed(s) : s \in {Strip(IF text = <<"None">> THEN <<>> ELSE text)}})

-----------------------------------------------------------------------------
(* The canonical schema *)

F_date ==
    <<"d", "a", "t", "e">>

F_weight_kg ==
    <<"w", "e", "i", "g", "h", "t", "_", "k", "g">>

F_fat_kg ==
    <<"f", "a", "t", "_", "k", "g">>

F_muscle_mass_kg ==
    <<"m", "u", "s", "c", "l", "e", "_", "m", "a", "s", "s", "_", "k", "g">>

F_calories_kcal ==
    <<"c", "a", "l", "o", "r", "i", "e", "s", "_", "k", "c", "a", "l">>

F_metabolic_age ==
    <<"m", "e", "t", "a", "b", "o", "l", "i", "c", "_", "a", "g", "e">>

F_visceral_fat ==
    <<"v", "i", "s", "c", "e", "r", "a", "l", "_", "f", "a", "t">>

\* a column name outside the canonical schema
F_bmi ==
    <<"b", "m", "i">>

FIELDNAMES ==
    <<F_date, F_weight_kg, F_fat_kg, F_muscle_mass_kg, F_calories_kcal,
      F_metabolic_age, F_visceral_fat>>

\* the empty string
Empty == <<>>

\* Python's None, which is no text
None == <<"None">>

-----------------------------------------------------------------------------
(* The backing file and the csv module *)

Absent == [exists |-> FALSE, recs |-> <<>>]

FileOf(recs) == [exists |-> TRUE, recs |-> recs]

\* csv.DictReader(f).fieldnames: the first record, None for a file with none
ReaderFieldnames(f) == IF f.recs = <<>> THEN None ELSE f.recs[1]

\* one row of csv.DictReader: dict(zip(fieldnames, row)), the surplus cells
\* under the key None, the fields the row is too short for set to None
DictRow(fieldnames, row) ==
    [k \in Range(fieldnames)
           \cup (IF Len(row) > Len(fieldnames) THEN {None} ELSE {}) |->
        IF k = None /\ None \notin Range(fieldnames)
        THEN SubSeq(row, Len(fieldnames) + 1, Len(row))
        ELSE LET i == SetMax({j \in 1..Len(fieldnames) : fieldnames[j] = k})
             IN IF i <= Len(row) THEN row[i] ELSE None]

\* the rows csv.DictReader yields: every record after the first that is not
\* an empty line
DictReaderRows(f) ==
    LET fieldnames == IF ReaderFieldnames(f) = None THEN <<>> ELSE ReaderFieldnames(f)
        body == IF f.recs = <<>> THEN <<>> ELSE Tail(f.recs)
    IN Only({[i \in 1..Len(kept) |-> DictRow(fieldnames, kept[i])] :
             kept \in {SelectSeq(body, LAMBDA r : r # <<>>)}})

\* r.get(k, dflt)
Get(r, k, dflt) == IF k \in DOMAIN r THEN r[k] ELSE dflt

\* csv.DictWriter(f, fieldnames=FIELDNAMES).writerow(d): None is written empty
WriterRow(d) ==
    [i \in 1..Len(FIELDNAMES) |->
        IF d[FIELDNAMES[i]] = None THEN Empty ELSE d[FIELDNAMES[i]]]

-----------------------------------------------------------------------------
(* ensure_csv_schema *)

\* new_row = {k: r.get(k, "") for k in FIELDNAMES}
UpgradeRow(r) == [k \in Range(FIELDNAMES) |-> Get(r, k, Empty)]

\* the rewrite in append mode instead of mode "w"
EnsureCsvSchemaAppending(f) ==
    IF ~f.exists THEN FileOf(<<FIELDNAMES>>)
    ELSE LET current_fields ==
                 IF ReaderFieldnames(f) = None THEN <<>> ELSE ReaderFieldnames(f)
         IN IF current_fields = FIELDNAMES THEN f
            ELSE Only({FileOf(f.recs \o <<FIELDNAMES>>
                               \o [i \in 1..Len(rows) |->
                                     WriterRow(UpgradeRow(rows[i]))]) :
                       rows \in {DictReaderRows(f)}})

\* the rewrite keeps the records positionally, without reading them by name
EnsureCsvSchemaPositional(f) ==
    IF ~f.exists THEN FileOf(<<FIELDNAMES>>)
    ELSE LET current_fields ==
                 IF ReaderFieldnames(f) = None THEN <<>> ELSE ReaderFieldnames(f)
         IN IF current_fields = FIELDNAMES THEN f
            ELSE LET kept == SelectSeq(IF f.recs = <<>> THEN <<>> ELSE Tail(f.recs),
                                       LAMBDA r : r # <<>>)
                 IN FileOf(<<FIELDNAMES>>
                            \o [i \in 1..Len(kept) |->
                                  [j \in 1..Len(FIELDNAMES) |->
                                      IF j <= Len(kept[i]) THEN kept[i][j] ELSE Empty]])

\* the file after ensure_csv_schema()
EnsureCsvSchema(f) ==
    IF ~f.exists THEN FileOf(<<FIELDNAMES>>)
    ELSE LET current_fields ==
                 IF ReaderFieldnames(f) = None THEN <<>> ELSE ReaderFieldnames(f)
         IN IF current_fields = FIELDNAMES THEN f
            ELSE Only({FileOf(<<FIELDNAMES>>
                               \o [i \in 1..Len(rows) |->
                                     WriterRow(UpgradeRow(rows[i]))]) :
                       rows \in {DictReaderRows(f)}})

-----------------------------------------------------------------------------
(* is_blank_row and read_rows *)

RECURSIVE BlankFrom(_, _)
\* all(r.get(k, "").strip() == "" for k in FIELDNAMES[i:]), which stops at the
\* first field that is not blank and raises AttributeError on a None
BlankFrom(r, i) ==
    IF i > Len(FIELDNAMES) THEN "True"
    ELSE LET v == Get(r, FIELDNAMES[i], Empty)
         IN IF v = None THEN "AttributeError"
            ELSE IF Strip(v) = Empty THEN BlankFrom(r, i + 1) ELSE "False"

IsBlankRow(r) == BlankFrom(r, 1)

\* read_rows(): [ok |-> TRUE, rows] or the exception that ends it
ReadRows(f) ==
    IF ~f.exists THEN [ok |-> TRUE, rows |-> <<>>]
    ELSE Only({IF \E i \in 1..Len(rows) : IsBlankRow(rows[i]) = "AttributeError"
               THEN [ok |-> FALSE, error |-> "AttributeError"]
               ELSE [ok |-> TRUE,
                     rows |-> SelectSeq(rows, LAMBDA r : IsBlankRow(r) = "False")] :
               rows \in {DictReaderRows(f)}})

-----------------------------------------------------------------------------
(* float(), int() and the format specifications of save_entry.              *)
(* A float is held as the exact decimal neg * n / 10^e, or as nan or inf.   *)
(* float() is modelled for plain decimal texts, nan and inf (no exponent,   *)
(* no digit separators); formatting rounds the decimal value half to even,  *)
(* which is what Python prints wherever binary rounding is not at a tie.    *)

RECURSIVE Pow10(_)
Pow10(k) == IF k = 0 THEN 1 ELSE 10 * Pow10(k - 1)

NaN == [kind |-> "nan", neg |-> FALSE, n |-> 0, e |-> 0]

Inf(neg) == [kind |-> "inf", neg |-> neg, n |-> 0, e |-> 0]

Num(neg, n, e) == [kind |-> "num", neg |-> neg, n |-> n, e |-> e]

\* float(text): [ok |-> TRUE, v] or ValueError
ParseFloat(text) ==
    LET s0 == Strip(text)
        signed == s0 # <<>> /\ s0[1] \in {"+", "-"}
        neg == s0 # <<>> /\ s0[1] = "-"
        s == IF signed THEN Tail(s0) ELSE s0
        dots == {i \in 1..Len(s) : s[i] = "."}
    IN IF s = <<"n", "a", "n">> THEN [ok |-> TRUE, v |-> NaN]
       ELSE IF s = <<"i", "n", "f">> THEN [ok |-> TRUE, v |-> Inf(neg)]
       ELSE IF /\ \A i \in 1..Len(s) : s[i] \in D09 \cup {"."}
               /\ Cardinality(dots) <= 1
               /\ Len(s) > Cardinality(dots)
            THEN [ok |-> TRUE,
                  v |-> Num(neg, NumAt(s, 1, Len(s)),
                            IF dots = {} THEN 0 ELSE Len(s) - SetMax(dots))]
            ELSE [ok |-> FALSE]

\* a * b
FloatMul(a, b) ==
    IF a.kind = "nan" \/ b.kind = "nan" THEN NaN
    ELSE IF a.kind = "inf" \/ b.kind = "inf"
         THEN (IF (a.kind = "num" /\ a.n = 0) \/ (b.kind = "num" /\ b.n = 0)
               THEN NaN ELSE Inf(a.neg # b.neg))
         ELSE Num(a.neg # b.neg, a.n * b.n, a.e + b.e)

\* a / 100
FloatDiv100(a) == IF a.kind = "num" THEN Num(a.neg, a.n, a.e + 2) ELSE a

\* _convert_to_kg
ConvertToKg(weight, percentage) == FloatDiv100(FloatMul(weight, percentage))

RECURSIVE IntText(_)
\* str(n) for n >= 0
IntText(n) ==
    IF n < 10 THEN <<DigitSeq[n + 1]>>
    ELSE IntText(n \div 10) \o <<DigitSeq[(n % 10) + 1]>>

RECURSIVE ZeroPad(_, _)
ZeroPad(t, width) == IF Len(t) >= width THEN t ELSE ZeroPad(<<"0">> \o t, width)

\* round(n / 10^e * 10^k), half to even
RoundScaled(n, e, k) ==
    IF e <= k THEN n * Pow10(k - e)
    ELSE LET d == Pow10(e - k)
             q == n \div d
             r == n % d
         IN IF 2 * r > d \/ (2 * r = d /\ q % 2 = 1) THEN q + 1 ELSE q

\* f"{x:.kf}"
FormatFixed(x, k) ==
    LET sign == IF x.neg THEN <<"-">> ELSE <<>>
    IN IF x.kind = "nan" THEN <<"n", "a", "n">>
       ELSE IF x.kind = "inf" THEN sign \o <<"i", "n", "f">>
       ELSE LET q == RoundScaled(x.n, x.e, k)
            IN sign \o IntText(q \div Pow10(k))
                    \o (IF k = 0 THEN <<>>
                        ELSE <<".">> \o ZeroPad(IntText(q % Pow10(k)), k))

\* int(x): truncation toward zero; ValueError for nan, OverflowError for inf
IntOfFloat(x) ==
    IF x.kind # "num" THEN [ok |-> FALSE]
    ELSE [ok |-> TRUE, neg |-> x.neg, v |-> x.n \div Pow10(x.e)]

\* f"{i}"
FormatInt(i) == (IF i.neg /\ i.v # 0 THEN <<"-">> ELSE <<>>) \o IntText(i.v)

-----------------------------------------------------------------------------
(* sort_rows_by_date *)

\* what two datetimes are compared by: the day number and the second of the
\* day, in UTC for an aware datetime
KeyOf(dt) ==
    LET secs == 3600 * dt.H + 60 * dt.M + dt.S - 60 * dt.off
    IN [tz |-> dt.tz,
        day |-> Ordinal(dt.y, dt.m, dt.d) + (secs \div 86400),
        sec |-> secs % 86400]

\* datetime.max, 9999-12-31 23:59:59.999999: naive, after every whole second
DateTimeMax == [tz |-> "naive", day |-> Ordinal(9999, 12, 31), sec |-> 86400]

\* _key(r)
SortKey(r) ==
    Only({IF p.ok THEN KeyOf(p.dt) ELSE DateTimeMax :
          p \in {ParseDateStr(Get(r, F_date, Empty))}})

KeyLess(a, b) == a.day < b.day \/ (a.day = b.day /\ a.sec < b.sec)

\* sorted(rows, key=...): the stable ascending order of the keys
SortedByKey(rows, keys) ==
    LET n == Len(rows)
        pos(i) == 1 + Cardinality({j \in 1..n : KeyLess(keys[j], keys[i])})
                    + Cardinality({j \in 1..(i - 1) : keys[j] = keys[i]})
    IN [p \in 1..n |-> rows[CHOOSE i \in 1..n : pos(i) = p]]

\* [ok |-> TRUE, rows], or the TypeError of comparing a naive datetime with
\* an aware one: ordering the keys compares one of each kind when both occur
SortRowsByDate(rows) ==
    Only({IF \E i, j \in 1..Len(rows) : keys[i].tz # keys[j].tz
          THEN [ok |-> FALSE, error |-> "TypeError"]
          ELSE [ok |-> TRUE, rows |-> SortedByKey(rows, keys)] :
          keys \in {[i \in 1..Len(rows) |-> SortKey(rows[i])]}})

-----------------------------------------------------------------------------
(* save_entry *)

\* dobj.strftime("%Y-%m-%d"); the C library pads a year below 1000 to four
\* digits or does not
Strftime(dt, padYear) ==
    (IF padYear THEN ZeroPad(IntText(dt.y), 4) ELSE IntText(dt.y))
        \o <<"-">> \o ZeroPad(IntText(dt.m), 2)
        \o <<"-">> \o ZeroPad(IntText(dt.d), 2)

\* the slash format with the year last read month first
SaveFmtsMonthFirst == <<FmtMdySlash, FmtYmdSlash>>

\* the formats save_entry tries after %Y-%m-%d
SaveFmts == <<FmtDmySlash, FmtYmdSlash>>

\* an unmatched date is kept as entered instead of raising
SaveDateLenient(dval, padYear) ==
    Only({IF r1.ok THEN [ok |-> TRUE, dval |-> Strftime(r1, padYear)]
          ELSE Only({IF r2.ok THEN [ok |-> TRUE, dval |-> Strftime(r2, padYear)]
                     ELSE [ok |-> TRUE, dval |-> dval] :
                     r2 \in {FirstFormat(dval, SaveFmts, 1)}}) :
          r1 \in {Strptime(dval, FmtYmdDash)}})

\* the date normalization of save_entry: [ok |-> TRUE, dval] or ValueError
SaveDate(dval, padYear) ==
    Only({IF r1.ok THEN [ok |-> TRUE, dval |-> Strftime(r1, padYear)]
          ELSE Only({IF r2.ok THEN [ok |-> TRUE, dval |-> Strftime(r2, padYear)]
                     ELSE [ok |-> FALSE] :
                     r2 \in {FirstFormat(dval, SaveFmts, 1)}}) :
          r1 \in {Strptime(dval, FmtYmdDash)}})

\* the numeric conversions of save_entry and the record they give
SaveNumbers(raw, dval) ==
    Only({IF \E i \in 2..7 : ~n[i].ok
          THEN [ok |-> FALSE, reason |-> "number"]
          ELSE Only({IF ~(meta_age.ok /\ vfat.ok)
                     THEN [ok |-> FALSE, reason |-> "number"]
                     ELSE [ok |-> TRUE,
                           record |->
                               (F_date :> dval)
                               @@ (F_weight_kg :> FormatFixed(n[2].v, 3))
                               @@ (F_fat_kg :> FormatFixed(fat, 3))
                               @@ (F_muscle_mass_kg :> FormatFixed(n[4].v, 3))
                               @@ (F_calories_kcal :> FormatFixed(n[5].v, 0))
                               @@ (F_metabolic_age :> FormatInt(meta_age))
                               @@ (F_visceral_fat :> FormatInt(vfat))] :
                     fat \in {ConvertToKg(n[3].v, n[2].v)},
                     meta_age \in {IntOfFloat(n[6].v)},
                     vfat \in {IntOfFloat(n[7].v)}}) :
          n \in {<<dval, ParseFloat(raw[2]), ParseFloat(raw[3]), ParseFloat(raw[4]),
                   ParseFloat(raw[5]), ParseFloat(raw[6]), ParseFloat(raw[7])>>}})

\* the validation of save_entry, in its order: missing fields, the date, the
\* numbers.  entry holds the seven form fields in canonical order.
SaveRecord(entry, padYear) ==
    Only({IF \E i \in 1..Len(FIELDNAMES) : raw[i] = Empty
          THEN [ok |-> FALSE, reason |-> "missing"]
          ELSE Only({IF ~d.ok THEN [ok |-> FALSE, reason |-> "date"]
                     ELSE SaveNumbers(raw, d.dval) :
                     d \in {SaveDate(raw[1], padYear)}}) :
          raw \in {<<Strip(entry[1]), Strip(entry[2]), Strip(entry[3]), Strip(entry[4]),
                     Strip(entry[5]), Strip(entry[6]), Strip(entry[7])>>}})

\* the row written in mode "w", which truncates the file
AppendRecordTruncating(f, record) == FileOf(<<WriterRow(record)>>)

\* the file after the append of save_entry: ensure_csv_schema(), then one row
\* written in mode "a"
AppendRecord(f, record) == FileOf(EnsureCsvSchema(f).recs \o <<WriterRow(record)>>)

-----------------------------------------------------------------------------
(* plot_selected *)

\* the keys of series, in the order of FIELDNAMES
Metrics == Range(FIELDNAMES) \ {F_date}

\* float(val), nan when it raises; val = (r.get(key, "") or "").strip()
FloatOrNaN(r, key) ==
    Only({IF p.ok THEN p.v ELSE NaN :
          p \in {ParseFloat(IF Get(r, key, Empty) = None THEN Empty
                            ELSE Get(r, key, Empty))}})

RECURSIVE BuildSeries(_, _, _)
\* the loop over rows from row i on, acc = [xs, series, skipped]
BuildSeries(rows, i, acc) ==
    IF i > Len(rows) THEN acc
    ELSE Only({BuildSeries(rows, i + 1, next) :
               next \in {Only({IF ~p.ok THEN [acc EXCEPT !.skipped = @ + 1]
                               ELSE [xs |-> Append(acc.xs, p.dt),
                                     series |-> [k \in Metrics |->
                                                    Append(acc.series[k],
                                                           FloatOrNaN(rows[i], k))],
                                     skipped |-> acc.skipped] :
                               p \in {ParseDateStr(Get(rows[i], F_date, Empty))}})}})

\* len(xs) <= 1
TooFewPoints(xs) == Len(xs) <= 1

\* plot_selected from the loop over rows on
PlotRows(rows, sel) ==
    Only({IF sel = {}
          THEN [outcome |-> "returned", warning |-> "No metrics selected",
                rows |-> rows, xs |-> b.xs, series |-> b.series, skipped |-> b.skipped]
          ELSE [outcome |-> "plotted",
                warning |-> IF TooFewPoints(b.xs) THEN "Too few points" ELSE "none",
                rows |-> rows, xs |-> b.xs, series |-> b.series, skipped |-> b.skipped,
                plotted |-> [k \in sel |-> b.series[k]]] :
          b \in {BuildSeries(rows, 1,
                     [xs |-> <<>>, series |-> [k \in Metrics |-> <<>>], skipped |-> 0])}})

\* plot_selected with the metrics sel ticked: what it shows and what it plots
PlotResult(f, sel) ==
    Only({IF ~rr.ok THEN [outcome |-> "raised", error |-> rr.error]
          ELSE Only({IF ~sorted.ok THEN [outcome |-> "raised", error |-> sorted.error]
                     ELSE IF sorted.rows = <<>>
                          THEN [outcome |-> "returned", warning |-> "No data"]
                          ELSE PlotRows(sorted.rows, sel) :
                     sorted \in {SortRowsByDate(rr.rows)}}) :
          rr \in {ReadRows(f)}})

-----------------------------------------------------------------------------
(* Texts the runs are made of *)

T_2024_01_05 == <<"2", "0", "2", "4", "-", "0", "1", "-", "0", "5">>

T_2024_01_01 == <<"2", "0", "2", "4", "-", "0", "1", "-", "0", "1">>

T_2024_1_5_padded ==
    <<" ", "2", "0", "2", "4", "-", "1", "-", "5", " ", "\t">>

T_2024s01s05 == <<"2", "0", "2", "4", "/", "0", "1", "/", "0", "5">>

T_05s01s2024 == <<"0", "5", "/", "0", "1", "/", "2", "0", "2", "4">>

T_01s02s2024 == <<"0", "1", "/", "0", "2", "/", "2", "0", "2", "4">>

T_05_01_2024 == <<"0", "5", "-", "0", "1", "-", "2", "0", "2", "4">>

T_01_02_2024 == <<"0", "1", "-", "0", "2", "-", "2", "0", "2", "4">>

T_2024_01_05_time ==
    <<"2", "0", "2", "4", "-", "0", "1", "-", "0", "5", " ", "1", "0", ":",
      "0", "0", ":", "0", "0">>

T_20240105 == <<"2", "0", "2", "4", "0", "1", "0", "5">>

T_aware ==
    <<"2", "0", "2", "4", "-", "0", "1", "-", "0", "5", "T", "1", "0", ":",
      "0", "0", ":", "0", "0", "+", "0", "2", ":", "0", "0">>

T_aware_utc ==
    <<"2", "0", "2", "4", "-", "0", "1", "-", "0", "5", " ", "0", "8", ":",
      "0", "0", ":", "0", "0", "Z">>

T_not_a_date == <<"n", "o", "t", "-", "a", "-", "d", "a", "t", "e">>

T_2024_02_30 == <<"2", "0", "2", "4", "-", "0", "2", "-", "3", "0">>

T_0999_01_05 == <<"0", "9", "9", "9", "-", "0", "1", "-", "0", "5">>

T_12s31s2024 == <<"1", "2", "/", "3", "1", "/", "2", "0", "2", "4">>

T_70 == <<"7", "0">>

T_70_000 == <<"7", "0", ".", "0", "0", "0">>

T_14_000 == <<"1", "4", ".", "0", "0", "0">>

T_20 == <<"2", "0">>

T_30_5 == <<"3", "0", ".", "5">>

T_30_500 == <<"3", "0", ".", "5", "0", "0">>

T_2000_5 == <<"2", "0", "0", "0", ".", "5">>

T_2000 == <<"2", "0", "0", "0">>

T_30_9 == <<"3", "0", ".", "9">>

T_30 == <<"3", "0">>

T_5 == <<"5">>

T_80_5_padded == <<" ", "8", "0", ".", "5", " ">>

T_18 == <<"1", "8">>

T_neg3_2 == <<"-", "3", ".", "2">>

T_69 == <<"6", "9">>

T_71_5 == <<"7", "1", ".", "5">>

T_22 == <<"2", "2">>

T_x == <<"x">>

T_nan == <<"n", "a", "n">>

T_blank == <<" ">>

T_tab == <<"\t">>

T_z == <<"z">>

-----------------------------------------------------------------------------
(* The files a run starts from *)

Row7(c1, c2, c3, c4, c5, c6, c7) == <<c1, c2, c3, c4, c5, c6, c7>>

BlankRow7 == Row7(Empty, T_blank, Empty, Empty, T_tab, Empty, Empty)

\* headers a file may carry: none that names a column, the canonical one,
\* partial ones, a permutation, a repeated name, one with a foreign column
StoreHeaders ==
    {<<>>, FIELDNAMES, <<F_date>>, <<F_date, F_bmi>>, <<F_weight_kg, F_date>>,
     <<F_date, F_date>>,
     <<F_visceral_fat, F_metabolic_age, F_calories_kcal, F_muscle_mass_kg,
       F_fat_kg, F_weight_kg, F_date>>,
     FIELDNAMES \o <<F_bmi>>}

\* data records: an empty line, rows shorter than, as long as and longer than
\* the canonical header, blank or not
StoreRows ==
    {<<>>, <<Empty>>, <<T_blank>>, <<T_x>>, <<T_x, Empty>>, <<Empty, T_z>>,
     <<T_blank, Empty, T_z>>,
     Row7(T_x, T_z, T_5, T_x, T_z, T_5, T_x),
     Row7(Empty, Empty, Empty, Empty, Empty, Empty, Empty),
     BlankRow7,
     BlankRow7 \o <<T_z>>,
     Row7(T_x, T_z, T_5, T_x, T_z, T_5, T_x) \o <<T_z>>}

RECURSIVE SeqsUpTo(_, _)
\* the sequences of at most n elements of S
SeqsUpTo(S, n) ==
    IF n = 0 THEN {<<>>}
    ELSE LET shorter == SeqsUpTo(S, n - 1)
         IN shorter \cup {Append(s, x) : s \in {t \in shorter : Len(t) = n - 1}, x \in S}

StoreFiles ==
    {Absent, FileOf(<<>>)}
        \cup {FileOf(<<h>> \o rows) : h \in StoreHeaders, rows \in SeqsUpTo(StoreRows, MaxRows)}

GoodRow == Row7(T_2024_01_05, T_70_000, T_14_000, T_30_500, T_2000, T_30, T_5)

LegacyDateRow == Row7(T_01_02_2024, T_71_5, T_x, Empty, T_nan, T_blank, T_5)

BadDateRow == Row7(T_not_a_date, T_70, T_14_000, Empty, Empty, Empty, Empty)

\* rows a canonical file may hold when the application starts
StartRows ==
    {GoodRow, LegacyDateRow, BadDateRow, BlankRow7, <<T_2024_01_01, T_69>>,
     <<T_aware, T_70>>, <<T_blank>>, <<>>}

PlotFiles == {FileOf(<<FIELDNAMES>> \o rows) : rows \in SeqsUpTo(StartRows, MaxPlotRows)}

AppFiles ==
    {Absent, FileOf(<<>>), FileOf(<<FIELDNAMES>>),
     FileOf(<<<<F_date, F_bmi>>, <<T_2024_01_01, T_22>>, <<>>, <<T_not_a_date>>>>),
     FileOf(<<FIELDNAMES, GoodRow>>),
     FileOf(<<FIELDNAMES, <<>>, <<T_2024_01_01, T_69>>>>),
     FileOf(<<FIELDNAMES, LegacyDateRow, BadDateRow, BlankRow7>>),
     FileOf(<<FIELDNAMES, <<T_blank>>>>)}

-----------------------------------------------------------------------------
(* What the user enters *)

BaseNumbers == <<T_70, T_20, T_30_5, T_2000_5, T_30_9, T_5>>

SaveDates ==
    {T_2024_01_05, T_2024_1_5_padded, T_2024s01s05, T_05s01s2024, T_01s02s2024,
     T_05_01_2024, T_2024_01_05_time, T_20240105, T_aware, T_not_a_date,
     T_2024_02_30, T_0999_01_05, T_12s31s2024, Empty}

\* the six numeric fields: the base values, a second set of valid values, and
\* the base values with one field missing, blank, not a number, or nan
NumberFields ==
    {BaseNumbers, <<T_80_5_padded, T_18, T_30, T_2000, T_neg3_2, T_30_9>>}
        \cup {[BaseNumbers EXCEPT ![i] = Empty] : i \in 1..Len(BaseNumbers)}
        \cup {[BaseNumbers EXCEPT ![2] = T_blank], [BaseNumbers EXCEPT ![4] = T_x],
              [BaseNumbers EXCEPT ![1] = T_nan], [BaseNumbers EXCEPT ![5] = T_nan],
              [BaseNumbers EXCEPT ![6] = T_x]}

Entries ==
    {<<dt>> \o BaseNumbers : dt \in SaveDates}
        \cup {<<T_2024_01_01>> \o nums : nums \in NumberFields}

\* the metrics ticked in the form
Selections ==
    {{}, {F_weight_kg}, {F_weight_kg, F_fat_kg}, Metrics}

-----------------------------------------------------------------------------
(* The application: start-up, Save Entry, Plot Selected *)

Init ==
    /\ file \in AppFiles
    /\ started = FALSE
    /\ last = [op |-> "init"]
    /\ saved = <<>>
    /\ input = file

\* HealthTracketApp.__init__
Startup ==
    /\ ~started
    /\ started' = TRUE
    /\ file' = EnsureCsvSchema(file)
    /\ last' = [op |-> "startup", before |-> file]
    /\ UNCHANGED <<saved, input>>

\* save_entry on the form fields entry
SaveEntry ==
    /\ started
    /\ Len(saved) < MaxSaves
    /\ \E entry \in Entries, padYear \in BOOLEAN :
          LET v == SaveRecord(entry, padYear)
          IN /\ file' = IF v.ok THEN AppendRecord(file, v.record) ELSE file
             /\ saved' = IF v.ok THEN Append(saved, v.record) ELSE saved
             /\ last' = [op |-> "save", entry |-> entry, before |-> file, res |-> v]
    /\ UNCHANGED <<started, input>>

\* plot_selected with the metrics sel ticked
PlotSelected ==
    /\ started
    /\ \E sel \in Selections :
          last' = [op |-> "plot", sel |-> sel, before |-> file,
                   res |-> PlotResult(file, sel)]
    /\ UNCHANGED <<file, started, saved, input>>

Next == Startup \/ SaveEntry \/ PlotSelected

Spec == Init /\ [][Next]_vars

\* the application over stores of many shapes, without saves
InitPlot ==
    /\ file \in PlotFiles
    /\ started = FALSE
    /\ last = [op |-> "init"]
    /\ saved = <<>>
    /\ input = file

NextPlot == Startup \/ PlotSelected

SpecPlot == InitPlot /\ [][NextPlot]_vars

-----------------------------------------------------------------------------
(* The record store called directly *)

InitStore ==
    /\ file \in StoreFiles
    /\ started = FALSE
    /\ last = [op |-> "init"]
    /\ saved = <<>>
    /\ input = file

EnsureSchemaCall ==
    /\ file' = EnsureCsvSchema(file)
    /\ last' = [op |-> "ensure", before |-> file]
    /\ UNCHANGED <<started, saved, input>>

ReadRowsCall ==
    /\ last' = [op |-> "read", before |-> file, res |-> ReadRows(file)]
    /\ UNCHANGED <<file, started, saved, input>>

NextStore == EnsureSchemaCall \/ ReadRowsCall

SpecStore == InitStore /\ [][NextStore]_vars

-----------------------------------------------------------------------------
(* parse_date_str applied to a text *)

\* the parts dates are written with: their text and their value
Years ==
    {[t |-> <<"2", "0", "2", "4">>, v |-> 2024], [t |-> <<"2", "0", "2", "3">>, v |-> 2023],
     [t |-> <<"0", "9", "9", "9">>, v |-> 999]}

Months ==
    {[t |-> <<"0", "1">>, v |-> 1], [t |-> <<"1">>, v |-> 1], [t |-> <<"0", "2">>, v |-> 2],
     [t |-> <<"1", "2">>, v |-> 12], [t |-> <<"1", "3">>, v |-> 13]}

DaysOfMonth ==
    {[t |-> <<"0", "1">>, v |-> 1], [t |-> <<"5">>, v |-> 5], [t |-> <<"1", "2">>, v |-> 12],
     [t |-> <<"2", "9">>, v |-> 29], [t |-> <<"3", "0">>, v |-> 30],
     [t |-> <<"3", "1">>, v |-> 31], [t |-> <<"3", "2">>, v |-> 32]}

Separators == {"-", "/"}

YearFirst(y, sep, m, d) == y.t \o <<sep>> \o m.t \o <<sep>> \o d.t

YearLast(d, sep, m, y) == d.t \o <<sep>> \o m.t \o <<sep>> \o y.t

DateTexts ==
    {YearFirst(y, sep, m, d) : y \in Years, sep \in Separators, m \in Months, d \in DaysOfMonth}
        \cup {YearLast(d, sep, m, y) : y \in Years, sep \in Separators, m \in Months, d \in DaysOfMonth}
        \cup {<<" ", "\t">> \o YearLast(d, "-", m, y) \o <<" ">> :
                 y \in Years, m \in Months, d \in DaysOfMonth}
        \cup SaveDates
        \cup {T_aware_utc, T_blank, T_2024_01_05 \o T_x, T_2024_01_05 \o <<"T">>,
              T_2024_01_05 \o <<" ", "1", ":", "2", ":", "3">>,
              T_2024_01_05 \o <<" ", "1", "0", ":", "0", "0">>,
              T_2024_01_05 \o <<" ", "2", "4", ":", "0", "0", ":", "0", "0">>,
              T_05_01_2024 \o <<" ", "1", "0", ":", "0", "0", ":", "0", "0">>}

InitDate ==
    /\ input \in DateTexts
    /\ file = Absent
    /\ started = FALSE
    /\ last = [op |-> "init"]
    /\ saved = <<>>

ParseDateCall ==
    /\ last.op = "init"
    /\ last' = [op |-> "parse", res |-> ParseDateStr(input)]
    /\ UNCHANGED <<file, started, saved, input>>

NextDate == ParseDateCall

SpecDate == InitDate /\ [][NextDate]_vars

-----------------------------------------------------------------------------
(* sort_rows_by_date applied to rows *)

\* the dates of the rows sorted: equal days written differently, a date that
\* does not parse, an aware date
SortDates ==
    {T_2024_01_05, T_2024_01_01, T_05s01s2024, T_01_02_2024, T_not_a_date, T_aware, Empty}

SortRows == {DictRow(FIELDNAMES, <<dt, T_70>>) : dt \in SortDates}

InitSort ==
    /\ input \in SeqsUpTo(SortRows, MaxSortRows)
    /\ file = Absent
    /\ started = FALSE
    /\ last = [op |-> "init"]
    /\ saved = <<>>

SortRowsCall ==
    /\ last.op = "init"
    /\ last' = [op |-> "sort", res |-> SortRowsByDate(input)]
    /\ UNCHANGED <<file, started, saved, input>>

NextSort == SortRowsCall

SpecSort == InitSort /\ [][NextSort]_vars

-----------------------------------------------------------------------------
(* Properties of the record store *)

\* the file f is one that ensure_csv_schema rewrites
NeedsMigration(f) == f.exists /\ (f.recs = <<>> \/ f.recs[1] # FIELDNAMES)

OldHeader(f) == IF f.recs = <<>> THEN <<>> ELSE f.recs[1]

OldRows(f) == IF f.recs = <<>> THEN <<>> ELSE Tail(f.recs)

\* the cell of row in column j, empty when the row is too short for it
CellAt(row, j) == IF j <= Len(row) THEN row[j] ELSE Empty

\* C1: ensure_csv_schema is idempotent: a call that directly follows another
\* call leaves the file exactly as the first call left it, whatever the file
\* was at the start (absent, empty, canonical or any other header, any rows).
EnsureSchemaIdempotent ==
    [][last.op = "ensure" /\ last'.op = "ensure" => file' = file]_vars

\* a second call after a call that migrated the initial file
EnsureSchemaTwiceReached ==
    /\ last.op = "ensure"
    /\ last.before = file
    /\ input # file
    /\ NeedsMigration(input)
    /\ Len(file.recs) > 1

\* out is row projected on the canonical schema, a canonical field of the
\* header taking the cell of some column of that name
ProjectedOnSchema(header, row, out) ==
    /\ Len(out) = Len(FIELDNAMES)
    /\ \A i \in 1..Len(FIELDNAMES) :
          IF FIELDNAMES[i] \in Range(header)
          THEN \E j \in 1..Len(header) :
                  header[j] = FIELDNAMES[i] /\ out[i] = CellAt(row, j)
          ELSE out[i] = Empty

\* out is row projected on the canonical schema, a canonical field of the
\* header taking the cell of the last column of that name
ProjectedOnLastColumn(header, row, out) ==
    /\ Len(out) = Len(FIELDNAMES)
    /\ \A i \in 1..Len(FIELDNAMES) :
          IF FIELDNAMES[i] \in Range(header)
          THEN out[i] = CellAt(row, SetMax({j \in 1..Len(header) :
                                               header[j] = FIELDNAMES[i]}))
          ELSE out[i] = Empty

\* C2 as claimed: migrating a file with N records after the header gives the
\* canonical header followed by exactly N rows in the original order, each the
\* projection of its record on the canonical schema.
MigrationKeepsEveryRow ==
    last.op = "ensure" /\ NeedsMigration(last.before) =>
        /\ file.exists
        /\ Len(file.recs) = 1 + Len(OldRows(last.before))
        /\ file.recs[1] = FIELDNAMES
        /\ \A i \in 1..Len(OldRows(last.before)) :
              ProjectedOnSchema(OldHeader(last.before), OldRows(last.before)[i],
                                file.recs[i + 1])

\* C2 amended: migrating a file gives the canonical header followed by one row
\* for each record after the header that is not an empty line, in the original
\* order; each row has the seven canonical cells, a field named in the old
\* header taking the record's cell under the last column of that name (empty
\* when the record is too short), a field not named there being empty.
MigrationKeepsNonEmptyRows ==
    last.op = "ensure" /\ NeedsMigration(last.before) =>
        LET kept == SelectSeq(OldRows(last.before), LAMBDA r : r # <<>>)
        IN /\ file.exists
           /\ Len(file.recs) = 1 + Len(kept)
           /\ file.recs[1] = FIELDNAMES
           /\ \A i \in 1..Len(kept) :
                 ProjectedOnLastColumn(OldHeader(last.before), kept[i], file.recs[i + 1])

\* a migration of two records under a header that names the date second
MigrationReached ==
    /\ last.op = "ensure"
    /\ NeedsMigration(last.before)
    /\ OldHeader(last.before) = <<F_weight_kg, F_date>>
    /\ Len(file.recs) = 3
    /\ file.recs[2][1] # Empty

\* a record is blank iff every canonical field is empty after trimming; a
\* field the record has no cell for is empty
BlankRecord(r) ==
    \A k \in Range(FIELDNAMES) :
        Get(r, k, Empty) = None \/ Strip(Get(r, k, Empty)) = Empty

\* C5 as claimed: read_rows completes without error on every file, rows
\* shorter or longer than the header included, and returns, in file order,
\* exactly the records that are not blank; an absent file gives no rows.
ReadRowsFiltersBlankRows ==
    last.op = "read" =>
        /\ last.res.ok
        /\ last.res.rows = SelectSeq(DictReaderRows(last.before),
                                     LAMBDA r : ~BlankRecord(r))

-----------------------------------------------------------------------------
(* Properties of parse_date_str and sort_rows_by_date *)

\* y, m, d name a day of the calendar
IsDay(y, m, d) == y \in 1..9999 /\ m \in 1..12 /\ d \in 1..DaysInMonth(y, m)

\* what parsing a text that reads as the date y, m, d gives
DayOrError(y, m, d, s) ==
    IF IsDay(y, m, d)
    THEN [ok |-> TRUE, dt |-> DateTime(y, m, d, 0, 0, 0, "naive", 0)]
    ELSE [ok |-> FALSE, text |-> s]

\* C9: parse_date_str trims the text; a text written year first is read as
\* year, month, day and a slash or dash date with the year last is read day
\* first ("01-02-2024" is 1 February 2024); a text no format and no ISO form
\* accepts fails with an error carrying the trimmed text.
DateReadDayFirst ==
    last.op = "parse" =>
        /\ \A y \in Years, m \in Months, d \in DaysOfMonth, sep \in Separators :
              /\ Strip(input) = YearLast(d, sep, m, y)
                    => last.res = DayOrError(y.v, m.v, d.v, Strip(input))
              /\ Strip(input) = YearFirst(y, sep, m, d)
                    => last.res = DayOrError(y.v, m.v, d.v, Strip(input))
        /\ ~last.res.ok => last.res.text = Strip(input)
        /\ input = T_01_02_2024
              => last.res = [ok |-> TRUE,
                             dt |-> DateTime(2024, 2, 1, 0, 0, 0, "naive", 0)]

\* a padded dash date with the year last, whose day could be a month, parsed
DayFirstReached ==
    /\ last.op = "parse"
    /\ \E y \in Years, m \in Months, d \in DaysOfMonth :
          /\ input = <<" ", "\t">> \o YearLast(d, "-", m, y) \o <<" ">>
          /\ d.v <= 12 /\ d.v # m.v
          /\ last.res.ok
          /\ last.res.dt.d = d.v

\* out holds the rows of in reordered by an injection p that keeps the input
\* order of rows with equal keys and puts the keys in non-decreasing order
StableAscending(in, out) ==
    /\ Len(out) = Len(in)
    /\ \E p \in [1..Len(in) -> 1..Len(in)] :
          /\ \A i, j \in 1..Len(in) : i # j => p[i] # p[j]
          /\ \A i \in 1..Len(in) : out[i] = in[p[i]]
          /\ \A i, j \in 1..Len(in) :
                i < j => /\ ~KeyLess(SortKey(in[p[j]]), SortKey(in[p[i]]))
                         /\ (SortKey(in[p[i]]) = SortKey(in[p[j]]) => p[i] < p[j])

\* C6 as claimed: sort_rows_by_date never raises and returns the rows in
\* stable ascending order of their dates, the rows whose date does not parse
\* last and in their input order.
SortStableAndNeverRaises ==
    last.op = "sort" =>
        /\ last.res.ok
        /\ StableAscending(input, last.res.rows)

-----------------------------------------------------------------------------
(* Properties of save_entry *)

\* the form fields after trimming
Trimmed(entry) == [i \in 1..Len(entry) |-> Strip(entry[i])]

\* the date formats the error message of save_entry names
SaveFormatsDocumented == {FmtYmdDash, FmtDmySlash, FmtYmdSlash}

\* the text is a day in one of the formats save_entry names
DateEntryValid(t) == \E fmt \in SaveFormatsDocumented : Strptime(t, fmt).ok

\* float() accepts the text
IsFloatText(t) == ParseFloat(t).ok

\* int(float()) accepts the text
IsIntText(t) == ParseFloat(t).ok /\ ParseFloat(t).v.kind = "num"

\* every field filled, the date accepted, every number parseable
EntryValid(entry) ==
    LET raw == Trimmed(entry)
    IN /\ \A i \in 1..Len(raw) : raw[i] # Empty
       /\ DateEntryValid(raw[1])
       /\ \A i \in 2..5 : IsFloatText(raw[i])
       /\ \A i \in 6..7 : IsIntText(raw[i])

\* C3: a save_entry that fails validation (a field empty, a number that does
\* not parse, a date not accepted) is rejected and leaves the backing file
\* exactly as it was before the call.
RejectedSavePersistsNothing ==
    last.op = "save" /\ ~EntryValid(last.entry) =>
        /\ ~last.res.ok
        /\ file = last.before

\* a save rejected for its date after an earlier save, the file holding rows
RejectedSaveReached ==
    /\ last.op = "save"
    /\ ~last.res.ok
    /\ last.res.reason = "date"
    /\ Len(file.recs) > 1
    /\ Len(saved) > 0

\* the cells of a record in canonical column order
CellsOf(record) == [i \in 1..Len(FIELDNAMES) |-> record[FIELDNAMES[i]]]

\* the store was fresh when the application started: absent or without rows
FreshStore(f) == ~f.exists \/ f.recs = <<>> \/ f.recs = <<FIELDNAMES>>

DayOf(dt) == <<dt.y, dt.m, dt.d>>

\* C10 as claimed: a save is rejected for its date only when parse_date_str
\* fails on the text entered; every date text parse_date_str accepts is
\* accepted by save_entry, and the stored date is the YYYY-MM-DD rendering of
\* the day parse_date_str returns, which parsing the stored cell gives back.
SaveDateAgreesWithParse ==
    last.op = "save" /\ (\A i \in 1..Len(last.entry) : Strip(last.entry[i]) # Empty) =>
        LET p == ParseDateStr(last.entry[1])
        IN /\ ~last.res.ok /\ last.res.reason = "date" => ~p.ok
           /\ p.ok => ~(~last.res.ok /\ last.res.reason = "date")
           /\ last.res.ok =>
                 /\ p.ok
                 /\ last.res.record[F_date] = Strftime(p.dt, TRUE)
                 /\ ParseDateStr(last.res.record[F_date]).ok
                 /\ DayOf(ParseDateStr(last.res.record[F_date]).dt) = DayOf(p.dt)

\* C10 amended: with every field filled, a save is rejected for its date
\* exactly when the trimmed text is a day in none of the three formats
\* YYYY-MM-DD, DD/MM/YYYY and YYYY/MM/DD (the DD-MM-YYYY, YYYY-MM-DD HH:MM:SS
\* and ISO-only texts parse_date_str accepts are rejected); a text save_entry
\* accepts is accepted by parse_date_str too, the stored date is strftime's
\* %Y-%m-%d rendering of the day parse_date_str returns, and for the years
\* from 1000 on it has the form YYYY-MM-DD and parses back to that day.
SaveDateAgreesOnSaveFormats ==
    last.op = "save" /\ (\A i \in 1..Len(last.entry) : Strip(last.entry[i]) # Empty) =>
        LET p == ParseDateStr(last.entry[1])
        IN /\ (~last.res.ok /\ last.res.reason = "date")
                 <=> ~DateEntryValid(Strip(last.entry[1]))
           /\ last.res.ok =>
                 /\ p.ok
                 /\ last.res.record[F_date] \in {Strftime(p.dt, TRUE), Strftime(p.dt, FALSE)}
                 /\ p.dt.y >= 1000 =>
                       /\ Len(last.res.record[F_date]) = 10
                       /\ ParseDateStr(last.res.record[F_date]).ok
                       /\ DayOf(ParseDateStr(last.res.record[F_date]).dt) = DayOf(p.dt)

\* a date entered day first with slashes saved, and stored year first
SlashDateSavedReached ==
    /\ last.op = "save"
    /\ last.res.ok
    /\ last.entry[1] = T_01s02s2024
    /\ last.res.record[F_date] = <<"2", "0", "2", "4", "-", "0", "2", "-", "0", "1">>

-----------------------------------------------------------------------------
(* Properties of plot_selected *)

\* the rows of the sequence whose date parses, by position
Dated(rows) == {i \in 1..Len(rows) : ParseDateStr(Get(rows[i], F_date, Empty)).ok}

\* the position of the j-th row whose date parses
NthDated(rows, j) ==
    CHOOSE i \in Dated(rows) : Cardinality({k \in Dated(rows) : k < i}) = j - 1

\* the x-axis and the series of res are those of the rows: one point per row
\* whose date parses, in order, every series as long as the x-axis, the
\* sentinel where the cell is not a number
AlignedWith(rows, res) ==
    /\ Len(res.xs) = Cardinality(Dated(rows))
    /\ res.skipped + Len(res.xs) = Len(rows)
    /\ \A k \in Metrics : Len(res.series[k]) = Len(res.xs)
    /\ \A j \in 1..Len(res.xs) :
          LET r == rows[NthDated(rows, j)]
          IN /\ res.xs[j] = ParseDateStr(Get(r, F_date, Empty)).dt
             /\ \A k \in Metrics :
                   res.series[k][j] =
                       IF ParseFloat(IF Get(r, k, Empty) = None THEN Empty
                                     ELSE Get(r, k, Empty)).ok
                       THEN ParseFloat(Get(r, k, Empty)).v
                       ELSE NaN

\* C7 as claimed: for every sequence of stored rows plot_selected builds an
\* x-axis with one entry per row whose date parses and series of the same
\* length, index by index from the same row, the sentinel where a cell is not
\* a number, the skipped rows and the x-axis adding up to the rows read.
SeriesAligned ==
    last.op = "plot" =>
        /\ last.res.outcome # "raised"
        /\ "xs" \in DOMAIN last.res => AlignedWith(last.res.rows, last.res)

\* the rows of the file whose date parses
UsablePoints(f) == Cardinality(Dated(DictReaderRows(f)))

\* C8 as claimed: in every plot_selected run with fewer than two usable points
\* the "too few points" warning is raised and plotting proceeds; with two or
\* more usable points the warning is not raised.
TooFewPointsSignalled ==
    last.op = "plot" =>
        /\ UsablePoints(last.before) < 2 =>
              /\ last.res.outcome = "plotted"
              /\ last.res.warning = "Too few points"
        /\ UsablePoints(last.before) >= 2 =>
              \/ last.res.outcome = "raised"
              \/ last.res.warning # "Too few points"

=============================================================================
